---- MODULE Spec2Model ----
(***************************************************************************)
(* Model of the DateTime MCP server (src/src/server.py).                   *)
(*                                                                         *)
(* The server keeps three configuration strings read from the environment  *)
(* at import time, one static tool descriptor, and two request handlers:   *)
(* list_tools and call_tool.  call_tool resolves the format and timezone,  *)
(* looks the timezone up with pytz, reads the clock and formats the        *)
(* instant with format_datetime.                                           *)
(*                                                                         *)
(* Strings are TLA+ strings.  A JSON/Python value that may be None is a    *)
(* record: Str(s) or None.  An instant is the pair (seconds since the      *)
(* epoch, microsecond of the second); a datetime is an instant together    *)
(* with the tzinfo returned by pytz.  Python's float arithmetic in         *)
(* datetime.timestamp() is modelled bit-exactly for the binade of the      *)
(* instants the clock can return (see timestamp).                          *)
(***************************************************************************)
EXTENDS Integers, Sequences, FiniteSets, TLC

VARIABLES
    DATETIME_FORMAT,        \* server.py:86, str
    DATE_FORMAT_STRING,     \* server.py:87, sequence of characters
    TIMEZONE,               \* server.py:88, str
    GET_CURRENT_TIME_TOOL,  \* server.py:115, the Tool object
    strftimeStrict,         \* platform: does strftime reject lone surrogates
    request,                \* the request being answered (or NoRequest)
    response,               \* what the handler returned (or raised) for it
    frame,                  \* the handler's locals and the library calls it made
    first,                  \* history: the first call_tool exchange observed
    listed                  \* history: what the first list_tools returned

vars == <<DATETIME_FORMAT, DATE_FORMAT_STRING, TIMEZONE, GET_CURRENT_TIME_TOOL,
          strftimeStrict, request, response, frame, first, listed>>

config == <<DATETIME_FORMAT, DATE_FORMAT_STRING, TIMEZONE>>

-----------------------------------------------------------------------------
(* Python values *)

None == [t |-> "NoneType"]

Str(s) == [t |-> "str", v |-> s]

\* str(x) as used by f"{x}" on a str or on None
PyStr(x) == IF x = None THEN "None" ELSE x.v

\* dict.get(key, default): the default is used only when the key is missing
DictGet(d, key, default) == IF key \in DOMAIN d THEN d[key] ELSE default

-----------------------------------------------------------------------------
(* Exceptions and returned values of the library calls *)

Return(x) == [raised |-> FALSE, value |-> x]

Raise(cls, message) == [raised |-> TRUE, cls |-> cls, msg |-> message]

-----------------------------------------------------------------------------
(* Text helpers *)

\* the characters of a string, as a sequence of one-character strings
Chars(s) == [i \in 1..Len(s) |-> SubSeq(s, i, i)]

\* a lone surrogate: how os.environ decodes an undecodable byte (surrogateescape)
Surrogate == "\\udcff"

\* "%02d" % n and friends
Pad2(n) == IF n < 10 THEN "0" \o ToString(n) ELSE ToString(n)

Pad3(n) == IF n < 10 THEN "00" \o ToString(n)
           ELSE IF n < 100 THEN "0" \o ToString(n) ELSE ToString(n)

Pad4(n) == IF n < 1000 THEN "0" \o Pad3(n) ELSE ToString(n)

Pad6(n) == Pad3(n \div 1000) \o Pad3(n % 1000)

-----------------------------------------------------------------------------
(* The timezone database (pytz) *)

UTC == [zone |-> "UTC", utcoffset |-> 0, tzname |-> "UTC"]

Tokyo == [zone |-> "Asia/Tokyo", utcoffset |-> 32400, tzname |-> "JST"]

Kolkata == [zone |-> "Asia/Kolkata", utcoffset |-> 19800, tzname |-> "IST"]

all_timezones == {UTC, Tokyo, Kolkata}

\* pytz.timezone(zone): None and names not in the database raise
\* UnknownTimeZoneError, otherwise the tzinfo of the zone is returned
pytz_timezone(zone) ==
    IF zone = None THEN Raise("UnknownTimeZoneError", "None")
    ELSE IF \E tz \in all_timezones : tz.zone = zone.v
         THEN Return(CHOOSE tz \in all_timezones : tz.zone = zone.v)
         ELSE Raise("UnknownTimeZoneError", "'" \o zone.v \o "'")

-----------------------------------------------------------------------------
(* datetime: the calendar fields of an instant in a tzinfo.  The clock is   *)
(* an instant (sec, us): seconds since the epoch and microsecond of the     *)
(* second.                                                                  *)

\* proleptic Gregorian date of a day number counted from 1970-01-01
CivilOfMonth(y, doy, mp) ==
    [year  |-> y + (IF mp < 10 THEN 0 ELSE 1),
     month |-> IF mp < 10 THEN mp + 3 ELSE mp - 9,
     day   |-> doy - (153 * mp + 2) \div 5 + 1]

CivilOfDayOfYear(y, doy) == CivilOfMonth(y, doy, (5 * doy + 2) \div 153)

CivilOfYearOfEra(era, doe, yoe) ==
    CivilOfDayOfYear(yoe + era * 400, doe - (365 * yoe + yoe \div 4 - yoe \div 100))

CivilOfDayOfEra(era, doe) ==
    CivilOfYearOfEra(era, doe,
        (doe - doe \div 1460 + doe \div 36524 - doe \div 146096) \div 365)

CivilOfShifted(z) == CivilOfDayOfEra(z \div 146097, z % 146097)

CivilFromDays(days) == CivilOfShifted(days + 719468)

\* the day number, counted from 1970-01-01, of a proleptic Gregorian date
DaysOfYearOfEra(era, yoe, doy) ==
    era * 146097 + (yoe * 365 + yoe \div 4 - yoe \div 100 + doy) - 719468

DaysOfShiftedYear(y, m, d) ==
    DaysOfYearOfEra(y \div 400, y % 400,
        (153 * (IF m > 2 THEN m - 3 ELSE m + 9) + 2) \div 5 + d - 1)

DaysFromCivil(y, m, d) == DaysOfShiftedYear(IF m <= 2 THEN y - 1 ELSE y, m, d)

\* the datetime with the fields of a date and of a second of the day
MakeDatetime(date, sod, us, tz) ==
    [year |-> date.year, month |-> date.month, day |-> date.day,
     hour |-> sod \div 3600, minute |-> (sod % 3600) \div 60, second |-> sod % 60,
     microsecond |-> us, tzinfo |-> tz]

FromLocalSeconds(local, us, tz) ==
    MakeDatetime(CivilFromDays(local \div 86400), local % 86400, us, tz)

\* datetime.now(tz): the instant read from the clock, localized to tz
datetime_now(instant, tz) == FromLocalSeconds(instant.sec + tz.utcoffset, instant.us, tz)

\* datetime.weekday(): Monday is 0; 1970-01-01 was a Thursday
Weekday(now) == (DaysFromCivil(now.year, now.month, now.day) + 3) % 7

\* (now - epoch) in whole seconds, as timestamp() computes it for an aware datetime
EpochSeconds(now) ==
    DaysFromCivil(now.year, now.month, now.day) * 86400
    + now.hour * 3600 + now.minute * 60 + now.second - now.tzinfo.utcoffset

DayAbbr == <<"Mon", "Tue", "Wed", "Thu", "Fri", "Sat", "Sun">>

MonthAbbr == <<"Jan", "Feb", "Mar", "Apr", "May", "Jun",
               "Jul", "Aug", "Sep", "Oct", "Nov", "Dec">>

\* the "HH:MM" of an offset of a seconds east or west of UTC
OffsetDigits(a) ==
    Pad2(a \div 3600) \o ":" \o Pad2((a % 3600) \div 60)
    \o (IF a % 60 # 0 THEN ":" \o Pad2(a % 60) ELSE "")

\* the "+HH:MM" suffix isoformat() writes for an aware datetime
OffsetText(tz) ==
    IF tz.utcoffset < 0 THEN "-" \o OffsetDigits(0 - tz.utcoffset)
    ELSE "+" \o OffsetDigits(tz.utcoffset)

\* datetime.isoformat(): the fraction is written only when microsecond # 0
isoformat(now) ==
    Pad4(now.year) \o "-" \o Pad2(now.month) \o "-" \o Pad2(now.day) \o "T"
    \o Pad2(now.hour) \o ":" \o Pad2(now.minute) \o ":" \o Pad2(now.second)
    \o (IF now.microsecond # 0 THEN "." \o Pad6(now.microsecond) ELSE "")
    \o OffsetText(now.tzinfo)

-----------------------------------------------------------------------------
(* datetime.timestamp() and the float arithmetic behind unix / unix_ms      *)
(*                                                                         *)
(* timestamp() is the IEEE double nearest to sec + us/10^6.  For           *)
(* 2^30 <= sec < 2^31 (2004-01-10 .. 2038-01-19) a double has 22 fraction  *)
(* bits, so the value is sec + k/2^22; for 2^40 <= x < 2^41 it has 12, so  *)
(* timestamp()*1000 is sec*1000 + m/2^12.  Both roundings are              *)
(* round-half-to-even, computed here on integers.                          *)

\* n/d rounded to the nearest integer, ties to even (n >= 0, d > 0)
RoundTie(q, r, d) == IF 2 * r > d \/ (2 * r = d /\ q % 2 = 1) THEN q + 1 ELSE q

RoundHalfEven(n, d) == RoundTie(n \div d, n % d, d)

\* the float of whole + k/2^22 seconds
FloatOf(whole, k) == [whole |-> whole + k \div 4194304, frac22 |-> k % 4194304]

\* now.timestamp(): whole seconds and the fraction in units of 2^-22
timestamp(now) ==
    FloatOf(EpochSeconds(now),
            (now.microsecond \div 15625) * 65536
            + RoundHalfEven((now.microsecond % 15625) * 65536, 15625))

\* a variant of IntOfFloat that rounds to the nearest integer
IntOfFloat_round(x) == IF 2 * x.frac22 >= 4194304 THEN x.whole + 1 ELSE x.whole

\* int(x) of a float: truncation
IntOfFloat(x) == x.whole

\* the integer whole*1000 + ms, as thousands and the rest below 1000
Thousands(whole, ms) == [thousands |-> whole + ms \div 1000, rest |-> ms % 1000]

\* int(x * 1000) of a float x
IntOfFloatTimes1000(x) ==
    Thousands(x.whole, RoundHalfEven(x.frac22 * 125, 128) \div 4096)

\* str() of the integer thousands*1000 + rest
StrThousands(n) ==
    IF n.thousands = 0 THEN ToString(n.rest)
    ELSE ToString(n.thousands) \o Pad3(n.rest)

-----------------------------------------------------------------------------
(* datetime.strftime *)

\* the text one directive %c expands to; unknown directives are copied
Directive(now, c) ==
    CASE c = "Y" -> Pad4(now.year)
      [] c = "y" -> Pad2(now.year % 100)
      [] c = "m" -> Pad2(now.month)
      [] c = "d" -> Pad2(now.day)
      [] c = "H" -> Pad2(now.hour)
      [] c = "I" -> Pad2(IF now.hour % 12 = 0 THEN 12 ELSE now.hour % 12)
      [] c = "M" -> Pad2(now.minute)
      [] c = "S" -> Pad2(now.second)
      [] c = "p" -> (IF now.hour < 12 THEN "AM" ELSE "PM")
      [] c = "a" -> DayAbbr[Weekday(now) + 1]
      [] c = "b" -> MonthAbbr[now.month]
      [] c = "Z" -> now.tzinfo.tzname
      [] c = "f" -> Pad6(now.microsecond)
      [] c = "%" -> "%"
      [] OTHER   -> "%" \o c

RECURSIVE Expand(_, _, _)
\* the expansion of fmt from position i on
Expand(now, fmt, i) ==
    IF i > Len(fmt) THEN ""
    ELSE IF fmt[i] # "%" THEN fmt[i] \o Expand(now, fmt, i + 1)
    ELSE IF i = Len(fmt) THEN "%"
    ELSE Directive(now, fmt[i + 1]) \o Expand(now, fmt, i + 2)

\* the index of the first lone surrogate of fmt
FirstSurrogate(fmt) ==
    CHOOSE i \in 1..Len(fmt) :
        fmt[i] = Surrogate /\ \A j \in 1..(i - 1) : fmt[j] # Surrogate

\* now.strftime(fmt): a format holding a lone surrogate cannot be encoded
\* and raises UnicodeEncodeError where the platform's strftime is strict
strftime(now, fmt) ==
    IF strftimeStrict /\ \E i \in 1..Len(fmt) : fmt[i] = Surrogate
    THEN Raise("UnicodeEncodeError",
               "'utf-8' codec can't encode character '" \o Surrogate
               \o "' in position " \o ToString(FirstSurrogate(fmt) - 1)
               \o ": surrogates not allowed")
    ELSE Return(Expand(now, fmt, 1))

-----------------------------------------------------------------------------
(* server.py: the formatting functions *)

format_custom_date(now, format_string) == strftime(now, format_string)

\* a variant of FormatFallback that rejects a format type it does not know
FormatFallback_reject(now) == Raise("ValueError", "Unknown format")

\* the else branch: any other format type is formatted as "iso"
FormatFallback(now) == Return(isoformat(now))

format_datetime(now, format_type) ==
    IF format_type = Str("iso") THEN Return(isoformat(now))
    ELSE IF format_type = Str("unix")
         THEN Return(ToString(IntOfFloat(timestamp(now))))
    ELSE IF format_type = Str("unix_ms")
         THEN Return(StrThousands(IntOfFloatTimes1000(timestamp(now))))
    ELSE IF format_type = Str("human")
         THEN strftime(now, Chars("%a, %b %d, %Y %I:%M:%S %p %Z"))
    ELSE IF format_type = Str("date") THEN strftime(now, Chars("%Y-%m-%d"))
    ELSE IF format_type = Str("time") THEN strftime(now, Chars("%H:%M:%S"))
    ELSE IF format_type = Str("custom") THEN format_custom_date(now, DATE_FORMAT_STRING)
    ELSE FormatFallback(now)

-----------------------------------------------------------------------------
(* server.py: the tool descriptor and the two handlers *)

\* a variant of FormatEnum that lost one kind
FormatEnum_six == <<"iso", "unix", "human", "date", "time", "custom">>

FormatEnum == <<"iso", "unix", "unix_ms", "human", "date", "time", "custom">>

\* Tool(name=..., description=..., inputSchema=...) as built at import time
Tool(datetime_format, timezone) ==
    [name |-> "get_current_time",
     description |-> "Get the current date and time in various formats",
     inputSchema |->
        [type |-> "object",
         properties |->
            [format |->
                [type |-> "string",
                 enum |-> FormatEnum,
                 description |-> "Output format for the datetime (optional, defaults to \""
                                 \o datetime_format \o "\" from env)",
                 default |-> "iso"],
             timezone |->
                [type |-> "string",
                 description |-> "Timezone to use (optional, defaults to \""
                                 \o timezone \o "\" from env)",
                 default |-> "UTC"]]]]

list_tools == <<GET_CURRENT_TIME_TOOL>>

TextContent(text) == [type |-> "text", text |-> text]

ErrorContent(text) == [type |-> "text", text |-> text, isError |-> TRUE]

\* the end of the try block: result = format_datetime(now, format_type)
Formatted(result) ==
    [outcome |-> IF result.raised THEN result
                 ELSE Return(<<TextContent(result.value)>>),
     calls |-> <<"pytz.timezone", "datetime.now", "format_datetime">>]

\* the try block after tz = pytz.timezone(timezone_str)
Localized(tz, format_type, clock) ==
    IF tz.raised
    THEN [outcome |-> tz, calls |-> <<"pytz.timezone">>]
    ELSE Formatted(format_datetime(datetime_now(clock, tz.value), format_type))

\* the try block of call_tool: what it returns or raises, and the calls made
TryBlock(timezone_str, format_type, clock) ==
    Localized(pytz_timezone(timezone_str), format_type, clock)

\* a variant of ExceptClauses with the generic clause written first
ExceptClauses_generic(exc, timezone_str) ==
    Return(<<ErrorContent("Error: " \o exc.msg)>>)

\* a variant of ExceptClauses without the generic clause
ExceptClauses_propagate(exc, timezone_str) ==
    IF exc.cls = "UnknownTimeZoneError"
    THEN Return(<<ErrorContent("Error: Unknown timezone '" \o PyStr(timezone_str) \o "'")>>)
    ELSE exc

\* a variant of ExceptClauses that reports every failure as an unknown timezone
ExceptClauses_single(exc, timezone_str) ==
    Return(<<ErrorContent("Error: Unknown timezone '" \o PyStr(timezone_str) \o "'")>>)

\* the two except clauses, in the order they are written
ExceptClauses(exc, timezone_str) ==
    IF exc.cls = "UnknownTimeZoneError"
    THEN Return(<<ErrorContent("Error: Unknown timezone '" \o PyStr(timezone_str) \o "'")>>)
    ELSE Return(<<ErrorContent("Error: " \o exc.msg)>>)

\* a variant of GlobalsAfter where the handler rebinds the default format
GlobalsAfter_sticky(format_type, timezone_str) ==
    <<PyStr(format_type), DATE_FORMAT_STRING, TIMEZONE>>

\* the module globals after a call of the handler: it assigns none of them
GlobalsAfter(format_type, timezone_str) == config

\* the try statement as a whole: the try block, then the except clauses
TryExcept(try, format_type, timezone_str) ==
    [outcome |-> IF try.outcome.raised
                 THEN ExceptClauses(try.outcome, timezone_str)
                 ELSE try.outcome,
     frame   |-> [calls |-> try.calls, format_type |-> format_type,
                  timezone_str |-> timezone_str],
     globals |-> GlobalsAfter(format_type, timezone_str)]

\* the branch after format_type and timezone_str are bound
Resolved(format_type, timezone_str, clock) ==
    TryExcept(TryBlock(timezone_str, format_type, clock), format_type, timezone_str)

\* the branch of call_tool for name == "get_current_time"
GetCurrentTime(arguments, clock) ==
    Resolved(DictGet(arguments, "format", Str(DATETIME_FORMAT)),
             DictGet(arguments, "timezone", Str(TIMEZONE)),
             clock)

\* the else branch of call_tool
UnknownTool(name) ==
    [outcome |-> Return(<<ErrorContent("Unknown tool: " \o name)>>),
     frame   |-> [calls |-> <<>>],
     globals |-> config]

\* a variant of call_tool that does not look at the tool name
call_tool_any(name, arguments, clock) == GetCurrentTime(arguments, clock)

\* call_tool(name, arguments), with the instant the clock shows during the call
call_tool(name, arguments, clock) ==
    IF name = "get_current_time"
    THEN GetCurrentTime(arguments, clock)
    ELSE UnknownTool(name)

-----------------------------------------------------------------------------
(* The environment at startup and the requests the transport can deliver *)

EnvFormats == {"iso", "date", "bogus"}

EnvPatterns == {Chars("%Y-%m-%d %H:%M:%S"), Chars("%d/%m/%Y ") \o <<Surrogate>>}

EnvTimezones == {"UTC", "Asia/Tokyo", "Not/AZone"}

\* marks a key the arguments mapping does not hold
Missing == [t |-> "missing"]

\* the arguments dict holding the keys that are not Missing
MkArgs(f, t) ==
    [k \in (IF f = Missing THEN {} ELSE {"format"})
           \cup (IF t = Missing THEN {} ELSE {"timezone"})
        |-> IF k = "format" THEN f ELSE t]

Names == {"get_current_time", "bogus_tool"}

FormatArgs == {Missing, None} \cup {Str(FormatEnum[i]) : i \in 1..Len(FormatEnum)}
              \cup {Str("bogus")}

TimezoneArgs == {Missing, None, Str("UTC"), Str("Asia/Tokyo"), Str("Not/AZone")}

\* what the clock can show: 2024-01-15T10:30:00Z exactly and with sub-second
\* parts, the last microsecond of 2024-02-29 (UTC), instants in November
\* 2026, and instants near both ends of 2004-11-03 .. 2038-01-19
Instants == {[sec |-> 1705314600, us |-> 0],
             [sec |-> 1705314600, us |-> 1],
             [sec |-> 1705314600, us |-> 1000],
             [sec |-> 1705314600, us |-> 999999],
             [sec |-> 1709251199, us |-> 999999],
             [sec |-> 1793590245, us |-> 123456],
             [sec |-> 1793590245, us |-> 999000],
             [sec |-> 1099511628, us |-> 1999],
             [sec |-> 2147400000, us |-> 500000]}

\* the smaller request alphabet of the specification that keeps a history
ProbeFormatArgs == {Missing, Str("unix"), Str("custom")}

ProbeTimezoneArgs == {Missing, Str("Asia/Tokyo")}

ProbeInstants == {[sec |-> 1705314600, us |-> 0], [sec |-> 1709251199, us |-> 999999]}

NoRequest == [method |-> "none"]

NoCall == [request |-> NoRequest]

NoTool == [tools |-> <<>>, again |-> FALSE]

NoFrame == [calls |-> <<>>]

NoResponse == Return(<<>>)

-----------------------------------------------------------------------------
(* The state machine *)

Init ==
    /\ DATETIME_FORMAT \in EnvFormats
    /\ DATE_FORMAT_STRING \in EnvPatterns
    /\ TIMEZONE \in EnvTimezones
    /\ GET_CURRENT_TIME_TOOL = Tool(DATETIME_FORMAT, TIMEZONE)
    /\ strftimeStrict \in BOOLEAN
    /\ request = NoRequest
    /\ response = NoResponse
    /\ frame = NoFrame
    /\ first = NoCall
    /\ listed = NoTool

\* the transport delivers one request at a time
Idle == request = NoRequest

\* a "list tools" request is answered
AnswerList ==
    /\ Idle
    /\ request' = [method |-> "tools/list"]
    /\ response' = Return(list_tools)
    /\ frame' = NoFrame
    /\ UNCHANGED <<config, GET_CURRENT_TIME_TOOL, strftimeStrict>>

ListTools == AnswerList /\ UNCHANGED <<first, listed>>

\* the same handler, with the first list kept as history
ListToolsObserved ==
    /\ AnswerList
    /\ listed' = IF listed = NoTool THEN [tools |-> list_tools, again |-> FALSE]
                 ELSE [listed EXCEPT !.again = TRUE]
    /\ first' = IF first = NoCall THEN first ELSE [first EXCEPT !.others = TRUE]

\* the handler has returned r for the request req
Returned(req, r) ==
    /\ request' = req
    /\ response' = r.outcome
    /\ frame' = r.frame
    /\ DATETIME_FORMAT' = r.globals[1]
    /\ DATE_FORMAT_STRING' = r.globals[2]
    /\ TIMEZONE' = r.globals[3]
    /\ UNCHANGED <<GET_CURRENT_TIME_TOOL, strftimeStrict, listed>>

\* a "call tool" request is answered
Answer(name, arguments, clock) ==
    /\ Idle
    /\ Returned([method |-> "tools/call", name |-> name,
                 arguments |-> arguments, clock |-> clock],
                call_tool(name, arguments, clock))

CallTool ==
    \E name \in Names, f \in FormatArgs, t \in TimezoneArgs, clock \in Instants :
        /\ Answer(name, MkArgs(f, t), clock)
        /\ UNCHANGED first

\* the same handler, with the first exchange kept as history
CallToolObserved ==
    \E name \in Names, f \in ProbeFormatArgs, t \in ProbeTimezoneArgs,
       clock \in ProbeInstants :
        /\ Answer(name, MkArgs(f, t), clock)
        /\ first' = IF first = NoCall
                    THEN [request |-> request', response |-> response', others |-> FALSE]
                    ELSE [first EXCEPT !.others = @ \/ request' # first.request]

\* the transport has written the response and waits for the next request
Send ==
    /\ ~Idle
    /\ request' = NoRequest
    /\ response' = NoResponse
    /\ frame' = NoFrame
    /\ UNCHANGED <<config, GET_CURRENT_TIME_TOOL, strftimeStrict, first, listed>>

Next == ListTools \/ CallTool \/ Send

Spec == Init /\ [][Next]_vars

NextObserved == ListToolsObserved \/ CallToolObserved \/ Send

SpecObserved == Init /\ [][NextObserved]_vars

-----------------------------------------------------------------------------
(* Vocabulary of the properties *)

IsCall == request.method = "tools/call"

IsGetCurrentTime == IsCall /\ request.name = "get_current_time"

SevenKinds == {"iso", "unix", "unix_ms", "human", "date", "time", "custom"}

\* the value the call takes for a key: the argument, or the configured
\* default when the mapping does not hold the key
Effective(key, default) ==
    IF key \in DOMAIN request.arguments THEN request.arguments[key] ELSE Str(default)

EffectiveFormat == Effective("format", DATETIME_FORMAT)

EffectiveTimezone == Effective("timezone", TIMEZONE)

InDatabase(id) == id # None /\ id.v \in {"UTC", "Asia/Tokyo", "Asia/Kolkata"}

UnknownTimezoneText(id) == "Error: Unknown timezone '" \o PyStr(id) \o "'"

HasSurrogate(fmt) == \E i \in 1..Len(fmt) : fmt[i] = Surrogate

\* the only formatting failure: the custom pattern on a strict platform
FormattingFails ==
    EffectiveFormat = Str("custom") /\ strftimeStrict /\ HasSurrogate(DATE_FORMAT_STRING)

\* the instant of the request, localized to its (resolved) timezone
RequestNow ==
    datetime_now(request.clock,
                 CHOOSE tz \in all_timezones : tz.zone = EffectiveTimezone.v)

OneText(text) == Return(<<[type |-> "text", text |-> text]>>)

OneError(text) == Return(<<[type |-> "text", text |-> text, isError |-> TRUE]>>)

-----------------------------------------------------------------------------
(* C1: a call naming any tool other than "get_current_time" returns the     *)
(* single error payload "Unknown tool: <name>", whatever its arguments,     *)
(* and resolves no timezone, reads no clock and formats nothing.            *)
C1_UnknownTool ==
    (IsCall /\ request.name # "get_current_time")
        => /\ response = OneError("Unknown tool: " \o request.name)
           /\ frame.calls = <<>>

C1_Witness ==
    /\ IsCall
    /\ request.name = "bogus_tool"
    /\ request.arguments = [format |-> Str("bogus"), timezone |-> Str("Not/AZone")]
    /\ response = OneError("Unknown tool: bogus_tool")

(* C2: get_current_time with an effective timezone that is not in the      *)
(* database returns the single error payload                                *)
(* "Error: Unknown timezone '<id>'", for every format kind.                 *)
C2_UnknownTimezone ==
    (IsGetCurrentTime /\ ~InDatabase(EffectiveTimezone))
        => response = OneError(UnknownTimezoneText(EffectiveTimezone))

C2_Witness ==
    /\ IsGetCurrentTime
    /\ request.arguments = [format |-> Str("unix"), timezone |-> Str("Not/AZone")]
    /\ response = OneError("Error: Unknown timezone 'Not/AZone'")

(* C3: every call returns a list of exactly one text payload, carrying      *)
(* isError: true exactly when the call failed (unknown tool, unknown        *)
(* timezone, formatting failure) and no marker otherwise; nothing is        *)
(* raised out of the handler.                                               *)
C3_Failed ==
    \/ request.name # "get_current_time"
    \/ ~InDatabase(EffectiveTimezone)
    \/ FormattingFails

C3_OnePayload ==
    IsCall
        => /\ ~response.raised
           /\ Len(response.value) = 1
           /\ response.value[1].type = "text"
           /\ IF C3_Failed
              THEN /\ DOMAIN response.value[1] = {"type", "text", "isError"}
                   /\ response.value[1].isError = TRUE
              ELSE DOMAIN response.value[1] = {"type", "text"}

C3_Witness ==
    /\ IsGetCurrentTime
    /\ request.arguments = [format |-> Str("human"), timezone |-> Str("Asia/Tokyo")]
    /\ request.clock = [sec |-> 1709251199, us |-> 999999]
    /\ response = OneText("Fri, Mar 01, 2024 08:59:59 AM JST")

(* C4 (as claimed): the format and the timezone the handler works with are  *)
(* the arguments when supplied and the configured defaults when absent,     *)
(* where absent means missing or null.                                      *)
C4_NullCoalescing ==
    IsGetCurrentTime
        => /\ frame.format_type =
                IF "format" \in DOMAIN request.arguments /\ request.arguments.format # None
                THEN request.arguments.format ELSE Str(DATETIME_FORMAT)
           /\ frame.timezone_str =
                IF "timezone" \in DOMAIN request.arguments /\ request.arguments.timezone # None
                THEN request.arguments.timezone ELSE Str(TIMEZONE)

(* C5: a format kind string outside the seven kinds, supplied as argument   *)
(* or as configured default, is formatted exactly as "iso" and returned     *)
(* as a success payload.                                                    *)
C5_FallbackToIso ==
    (/\ IsGetCurrentTime
     /\ InDatabase(EffectiveTimezone)
     /\ EffectiveFormat # None
     /\ EffectiveFormat.v \notin SevenKinds)
        => /\ format_datetime(RequestNow, EffectiveFormat)
                = format_datetime(RequestNow, Str("iso"))
           /\ response = OneText(isoformat(RequestNow))

C5_Witness ==
    /\ IsGetCurrentTime
    /\ DATETIME_FORMAT = "bogus"
    /\ request.arguments = [timezone |-> Str("Asia/Tokyo")]
    /\ request.clock = [sec |-> 1793590245, us |-> 123456]
    /\ response = OneText("2026-11-02T12:30:45.123456+09:00")

(* C6 (as claimed): 2024-01-15T10:30:00 UTC with a zero sub-second part,    *)
(* formatted as "iso" in UTC, is "2024-01-15T10:30:00.000000+00:00".        *)
C6_IsoSixDigits ==
    (/\ IsGetCurrentTime
     /\ request.clock = [sec |-> 1705314600, us |-> 0]
     /\ EffectiveFormat = Str("iso")
     /\ EffectiveTimezone = Str("UTC"))
        => response = OneText("2024-01-15T10:30:00.000000+00:00")

(* C7: the unix and unix_ms outputs are the seconds and the milliseconds    *)
(* since the epoch with the rest cut off, never rounded: unix_ms is unix    *)
(* followed by the three digits of the millisecond of the second.           *)
C7_UnixTruncation ==
    (IsGetCurrentTime /\ InDatabase(EffectiveTimezone))
        => LET unix    == format_datetime(RequestNow, Str("unix"))
               unix_ms == format_datetime(RequestNow, Str("unix_ms"))
           IN /\ ~unix.raised /\ ~unix_ms.raised
              /\ unix.value = ToString(request.clock.sec)
              /\ unix_ms.value = unix.value \o Pad3(request.clock.us \div 1000)
              /\ EffectiveFormat = Str("unix") => response = OneText(unix.value)
              /\ EffectiveFormat = Str("unix_ms") => response = OneText(unix_ms.value)

C7_Witness ==
    /\ IsGetCurrentTime
    /\ request.arguments = [format |-> Str("unix_ms"), timezone |-> Str("Asia/Tokyo")]
    /\ request.clock = [sec |-> 1705314600, us |-> 999999]
    /\ response = OneText("1705314600999")

(* C8: list_tools returns exactly one descriptor, named "get_current_time", *)
(* whose format enum is the seven kinds, whatever the environment and       *)
(* whatever requests came before; it is the descriptor the first            *)
(* list_tools of the process returned.                                      *)
C8_OneDescriptor ==
    request.method = "tools/list"
        => /\ ~response.raised
           /\ Len(response.value) = 1
           /\ response.value[1].name = "get_current_time"
           /\ response.value[1].inputSchema.properties.format.enum
                = <<"iso", "unix", "unix_ms", "human", "date", "time", "custom">>
           /\ response.value = listed.tools

C8_Witness ==
    /\ request.method = "tools/list"
    /\ listed.again
    /\ first # NoCall
    /\ DATETIME_FORMAT = "bogus"
    /\ TIMEZONE = "Not/AZone"
    /\ Len(response.value) = 1

(* C9: no request changes the three configuration values or the tool        *)
(* descriptor, and a call with the name, arguments and instant of the       *)
(* first call of the process returns what that first call returned,         *)
(* whatever requests were answered in between.                              *)
C9_Step ==
    /\ config' = config
    /\ GET_CURRENT_TIME_TOOL' = GET_CURRENT_TIME_TOOL
    /\ (request'.method = "tools/call" /\ request' = first'.request)
            => response' = first'.response

C9_Stateless == [][C9_Step]_vars

C9_Witness ==
    /\ IsGetCurrentTime
    /\ first # NoCall
    /\ first.others
    /\ request = first.request
    /\ request.arguments = <<>>
    /\ response = first.response
    /\ ~response.raised
    /\ DOMAIN response.value[1] = {"type", "text"}

(* C10: with a timezone that resolves, a failure of the formatting returns  *)
(* the single error payload "Error: <message of the failure>", which is     *)
(* not the unknown-timezone text; with a timezone that does not resolve     *)
(* the unknown-timezone error is returned and the formatting is never       *)
(* reached, also when it would have failed.                                 *)
C10_FormattingFailure ==
    (IsGetCurrentTime /\ FormattingFails)
        => IF InDatabase(EffectiveTimezone)
           THEN /\ format_datetime(RequestNow, EffectiveFormat).raised
                /\ response = OneError("Error: "
                                \o format_datetime(RequestNow, EffectiveFormat).msg)
                /\ response # OneError(UnknownTimezoneText(EffectiveTimezone))
           ELSE /\ response = OneError(UnknownTimezoneText(EffectiveTimezone))
                /\ frame.calls = <<"pytz.timezone">>

C10_Witness ==
    /\ IsGetCurrentTime
    /\ request.arguments = [format |-> Str("custom"), timezone |-> Str("UTC")]
    /\ response = OneError("Error: 'utf-8' codec can't encode character '\\udcff' in position 9: surrogates not allowed")

====
